---- MODULE Spec2Model ----
(***************************************************************************)
(* SingleCellMemMapDataset (bionemo-scdl): a CSR store kept in three       *)
(* memory-mapped files plus json side files under one directory.           *)
(*                                                                         *)
(* The model follows                                                       *)
(*   sub-packages/bionemo-scdl/src/bionemo/scdl/io/                        *)
(*       single_cell_memmap_dataset.py                                     *)
(* Python indices are 0-based; sequences here are 1-based, so element i of *)
(* a numpy array is At(arr, i) == arr[i + 1].                              *)
(*                                                                         *)
(* A memmap handle of an object is modelled by the items numpy shows for   *)
(* it (the file's words decoded with the dtype the handle was opened       *)
(* with); the file itself is kept on the modelled disk.  data.npy is kept  *)
(* as a sequence of 32-bit words because its dtype varies; col_ptr.npy     *)
(* (uint32) and row_ptr.npy (uint64) never change dtype and are kept as    *)
(* sequences of naturals.                                                  *)
(***************************************************************************)
EXTENDS Integers, Sequences, FiniteSets, TLC

VARIABLES
    disk,   \* the file system: store directory -> its artifacts
    objs,   \* the Python variables holding SingleCellMemMapDataset objects
    last    \* the last call: its arguments, its outcome and the objects before it

vars == <<disk, objs, last>>

----------------------------------------------------------------------------
\* Bounds of the model.

\* a concat is explored only while its inputs hold at most this many rows together
MaxRows == 3
\* largest num_rows / num_elements passed to a fresh construction
MaxShape == 1

----------------------------------------------------------------------------
\* Generic helpers.

Min(a, b) == IF a < b THEN a ELSE b

\* arr[i] of a 0-based array
At(arr, i) == arr[i + 1]

\* the last element, arr[-1]
Last(arr) == arr[Len(arr)]

\* numpy basic slicing arr[start:end] for non-negative start and end:
\* both ends are clamped to the length, an inverted range is empty.
Slice(arr, start, end) ==
    LET s == Min(start, Len(arr))
        e == Min(end, Len(arr))
    IN  IF e <= s THEN <<>> ELSE SubSeq(arr, s + 1, e)

RECURSIVE SumSeq(_)
SumSeq(s) == IF s = <<>> THEN 0 ELSE Head(s) + SumSeq(Tail(s))

RECURSIVE Flatten(_)
Flatten(ss) == IF ss = <<>> THEN <<>> ELSE Head(ss) \o Flatten(Tail(ss))

Zeros(n) == [i \in 1..n |-> 0]

AddAll(arr, k) == [i \in 1..Len(arr) |-> arr[i] + k]

----------------------------------------------------------------------------
\* On-disk names and modes.

DATA     == "data.npy"
COLPTR   == "col_ptr.npy"
ROWPTR   == "row_ptr.npy"
METADATA == "metadata.json"
DTYPE    == "dtypes.json"
FEATURES == "features"
VERSION  == "version.json"

CREATE_APPEND == "w+"
READ_APPEND   == "r+"
READ          == "r"

Modes == {CREATE_APPEND, READ_APPEND}

\* importlib.metadata.version("bionemo.scdl") of the running process
LibVersion == "0.0.2"

DefaultDataDtype == "float32"

----------------------------------------------------------------------------
\* Bytes of data.npy.  A word is 32 bits.  A float32 item is one word, a
\* float64 item is two words, low word first (little endian).  Stored values
\* are whole-number counts v; the model's value v stands for the float v.0.
\* The low word of such a double is all zero bits, so it reads as the float32
\* 0.0; its high word reads as a float32 that is no stored count, named by
\* HiWordAsFloat32(v) (the model writes it 1000 + v).  Two float32 words read as one float64 give a double
\* that is no stored count either, named by WordsAsFloat64.

W32(v)   == [k |-> "f32", v |-> v]
W64lo(v) == [k |-> "lo64", v |-> v]
W64hi(v) == [k |-> "hi64", v |-> v]

EncodeItem(v, dtype) ==
    IF dtype = "float32" THEN <<W32(v)>> ELSE <<W64lo(v), W64hi(v)>>

\* the words written for an array of values held with `dtype`
Encode(vals, dtype) == Flatten([i \in 1..Len(vals) |-> EncodeItem(vals[i], dtype)])

HiWordAsFloat32(v) == IF v = 0 THEN 0 ELSE 1000 + v

WordAsFloat32(w) ==
    CASE w.k = "f32"  -> w.v
      [] w.k = "lo64" -> 0
      [] OTHER        -> HiWordAsFloat32(w.v)

WordsAsFloat64(lo, hi) ==
    IF lo.k = "lo64" /\ hi.k = "hi64" /\ lo.v = hi.v THEN lo.v
    ELSE IF lo.v = 0 /\ hi.v = 0 THEN 0
    ELSE 5000 + hi.v

ItemWords(dtype) == IF dtype = "float32" THEN 1 ELSE 2

\* np.memmap(path, dtype=dtype, mode=...) without a shape: the file must hold
\* a whole number of items, and every item of the file is shown.
MemmapFits(words, dtype) == Len(words) % ItemWords(dtype) = 0

MemmapItems(words, dtype) ==
    IF dtype = "float32"
    THEN [i \in 1..Len(words) |-> WordAsFloat32(words[i])]
    ELSE [i \in 1..(Len(words) \div 2) |-> WordsAsFloat64(words[2 * i - 1], words[2 * i])]

----------------------------------------------------------------------------
\* External sources (h5ad files).  A sparse source is the CSR matrix anndata
\* hands to load_h5ad: count_data.data / .indices / .indptr, its dtype, its
\* shape and adata.var (n_vars feature rows).  Column ids of a row need not
\* be sorted.  "missing" is a path that does not exist, "dense" a file whose
\* X is no scipy sparse matrix.

\* the value stored at row r (0-based), column c of a generated source
CellValue(r, c) == 10 * (r + 1) + 2 * c + 1

IndptrOf(rows) == [i \in 1..(Len(rows) + 1) |-> SumSeq([j \in 1..(i - 1) |-> Len(rows[j])])]

ColsUsed(rows) == UNION {{rows[r][k] : k \in 1..Len(rows[r])} : r \in 1..Len(rows)}

\* a source given by the column-id lists of its rows
MkSource(rows, dtype) ==
    [kind    |-> "sparse",
     n_obs   |-> Len(rows),
     n_vars  |-> IF 2 \in ColsUsed(rows) THEN 3 ELSE 2,
     dtype   |-> dtype,
     indptr  |-> IndptrOf(rows),
     indices |-> Flatten(rows),
     data    |-> Flatten([r \in 1..Len(rows) |->
                    [k \in 1..Len(rows[r]) |-> CellValue(r - 1, rows[r][k])]])]

\* the 3-row source with per-row counts [2, 0, 3] over 5 columns:
\* row0 {1: 5.0, 3: 2.0}, row1 {}, row2 {0: 1.0, 2: 4.0, 4: 9.0}
ScenarioSource ==
    [kind    |-> "sparse",
     n_obs   |-> 3,
     n_vars  |-> 5,
     dtype   |-> "float32",
     indptr  |-> <<0, 2, 2, 5>>,
     indices |-> <<1, 3, 0, 2, 4>>,
     data    |-> <<5, 2, 1, 4, 9>>]

BadSource(kind) ==
    [kind |-> kind, n_obs |-> 0, n_vars |-> 0, dtype |-> "float32",
     indptr |-> <<0>>, indices |-> <<>>, data |-> <<>>]

\* one float32 row whose ids reach a third column; one float64 row with
\* unsorted ids; an empty row followed by a row; a matrix without any stored
\* entry; and the scenario
SparseSources ==
    {MkSource(<< <<0, 2>> >>, "float32"),
     MkSource(<< <<1, 0>> >>, "float64"),
     MkSource(<< <<>>, <<1, 0>> >>, "float32"),
     MkSource(<< <<>> >>, "float32"),
     ScenarioSource}

Sources == SparseSources \cup {BadSource("missing"), BadSource("dense")}

\* h5ad_path = None
NoSource == BadSource("none")

\* row i (0-based) of a source, as (values, column ids)
SourceRow(s, i) ==
    [values  |-> Slice(s.data, At(s.indptr, i), At(s.indptr, i + 1)),
     columns |-> Slice(s.indices, At(s.indptr, i), At(s.indptr, i + 1))]

----------------------------------------------------------------------------
\* RowFeatureIndex, the collaborator that keeps one schema block per ingested
\* source: n_obs rows that share n_vars feature columns.

EmptyFeatureIndex == <<>>

FI_len(fi) == Len(fi)

FI_append_features(fi, n_obs, n_vars) == Append(fi, [n_obs |-> n_obs, n_vars |-> n_vars])

FI_concat(fi, other) == fi \o other

FI_number_of_rows(fi) == SumSeq([b \in 1..Len(fi) |-> fi[b].n_obs])

\* rows times feature columns, per block
FI_number_of_values(fi) ==
    IF fi = <<>> THEN <<0>> ELSE [b \in 1..Len(fi) |-> fi[b].n_obs * fi[b].n_vars]

\* the block (1-based) that holds row `index`, 0 when no block does
RECURSIVE FI_block_of(_, _)
FI_block_of(fi, index) ==
    IF fi = <<>> THEN 0
    ELSE IF index < fi[1].n_obs THEN 1
    ELSE LET rest == FI_block_of(Tail(fi), index - fi[1].n_obs)
         IN  IF rest = 0 THEN 0 ELSE rest + 1

FI_has_row(fi, index) == index >= 0 /\ FI_block_of(fi, index) # 0

FI_number_vars_at_row(fi, index) == fi[FI_block_of(fi, index)].n_vars

----------------------------------------------------------------------------
\* The disk.  A store directory is a record of its artifacts; `files` is the
\* set of names present, the other fields are the contents of those present.

Paths == {"p1", "p2"}

NoMetadata == [has_num_rows |-> FALSE, num_rows |-> 0]

NoDir ==
    [exists   |-> FALSE,
     files    |-> {},
     version  |-> "",
     metadata |-> NoMetadata,
     dtypes   |-> DefaultDataDtype,
     features |-> EmptyFeatureIndex,
     data     |-> <<>>,
     col      |-> <<>>,
     row      |-> <<>>]

\* os.path.exists(f"{data_path}/{name}")
FileExists(dir, name) == dir.exists /\ name \in dir.files

----------------------------------------------------------------------------
\* A SingleCellMemMapDataset object.

ObjIds == {"A", "B", "C"}

NoObj ==
    [alive         |-> FALSE,
     data_path     |-> "",
     mode          |-> READ_APPEND,
     version       |-> "",
     metadata      |-> NoMetadata,
     feature_index |-> EmptyFeatureIndex,
     dtype_data    |-> DefaultDataDtype,
     data          |-> <<>>,
     col_index     |-> <<>>,
     row_index     |-> <<>>]

\* the attribute assignments at the top of __init__
NewObj(data_path, mode) ==
    [NoObj EXCEPT !.alive = TRUE, !.data_path = data_path, !.mode = mode,
                  !.version = LibVersion]

\* a function's outcome: the exception raised ("ok" for none), the object and
\* the directory as the call leaves them
Outcome(status, obj, dir) == [status |-> status, obj |-> obj, dir |-> dir]

\* the result of a query that may raise
Value(v)  == [status |-> "ok", value |-> v]
Raise(ex) == [status |-> ex, value |-> 0]

version(o) == o.version

number_nonzero_values(o) == Len(o.data)

number_of_rows(o) ==
    IF FI_len(o.feature_index) > 0
       /\ FI_number_of_rows(o.feature_index) # Len(o.row_index) - 1
    THEN Raise("ValueError")
    ELSE Value(FI_number_of_rows(o.feature_index))

\* number_of_values taken to count the stored entries
number_of_values_AsStoredEntries(o) == Len(o.data)

number_of_values(o) == SumSeq(FI_number_of_values(o.feature_index))

get_row(o, index) ==
    LET start == At(o.row_index, index)
        end   == At(o.row_index, index + 1)
    IN  [values |-> Slice(o.data, start, end), columns |-> Slice(o.col_index, start, end)]

\* ret = np.zeros(n_cols); ret[col] = value for each stored entry in turn, so
\* the last entry of a column wins.  A column id outside the vector, or a
\* value without a column id, is an IndexError.
PadCanIndex(row_values, row_col_ptr, n_cols) ==
    /\ Len(row_col_ptr) >= Len(row_values)
    /\ \A k \in 1..Len(row_values) : row_col_ptr[k] < n_cols

PadVector(row_values, row_col_ptr, n_cols) ==
    [c \in 1..n_cols |->
        LET hits == {k \in 1..Len(row_values) : row_col_ptr[k] = c - 1}
        IN  IF hits = {} THEN 0
            ELSE row_values[CHOOSE k \in hits : \A j \in hits : j <= k]]

pad_sparse_array(row_values, row_col_ptr, n_cols) ==
    IF PadCanIndex(row_values, row_col_ptr, n_cols)
    THEN Value(PadVector(row_values, row_col_ptr, n_cols))
    ELSE Raise("IndexError")

get_row_padded(o, index) ==
    IF ~FI_has_row(o.feature_index, index) THEN Raise("IndexError")
    ELSE LET r == get_row(o, index)
         IN  pad_sparse_array(r.values, r.columns,
                              FI_number_vars_at_row(o.feature_index, index))

\* what get_row_column returns: a float, or None
PyFloat(v) == [kind |-> "float", v |-> v]
PyNone     == [kind |-> "None", v |-> 0]

\* the for loop of get_row_column over the row's entries from position k on:
\* return the value at the first column id equal to `column`, stop at the
\* first column id larger than `column`
RECURSIVE ScanRow(_, _, _, _, _)
ScanRow(row_values, row_column_pointer, k, column, impute_missing_zeros) ==
    IF k > Len(row_column_pointer) \/ row_column_pointer[k] > column
    THEN IF impute_missing_zeros THEN PyFloat(0) ELSE PyNone
    ELSE IF row_column_pointer[k] = column THEN PyFloat(row_values[k])
    ELSE ScanRow(row_values, row_column_pointer, k + 1, column, impute_missing_zeros)

get_row_column(o, index, column, impute_missing_zeros) ==
    LET row == get_row(o, index)
    IN  ScanRow(row.values, row.columns, 1, column, impute_missing_zeros)

----------------------------------------------------------------------------
\* numpy slice assignment arr[start:end] = vals: vals must have the length of
\* the slice, or length 1 (it is then broadcast); anything else is a
\* ValueError.

SliceLen(arr, start, end) == Len(Slice(arr, start, end))

CanAssign(arr, start, end, vals) ==
    Len(vals) = SliceLen(arr, start, end) \/ Len(vals) = 1

Assign(arr, start, end, vals) ==
    [i \in 1..Len(arr) |->
        IF i > start /\ i <= Min(end, Len(arr))
        THEN IF Len(vals) = 1 THEN vals[1] ELSE vals[i - start]
        ELSE arr[i]]

----------------------------------------------------------------------------
\* Construction, load, ingestion and save.

\* version.json is written at every call
init_obj_WritesAlways(dir) ==
    [dir EXCEPT !.exists = TRUE, !.files = @ \cup {VERSION}, !.version = LibVersion]

\* __init__obj: make the directory, write version.json unless it is there
init_obj(dir) ==
    [dir EXCEPT !.exists  = TRUE,
                !.files   = @ \cup {VERSION},
                !.version = IF FileExists(dir, VERSION) THEN @ ELSE LibVersion]

\* only the row count is tested
ShapeOk_RowsOnly(num_elements, num_rows) == num_rows > 0

\* the shape test of _create_compressed_sparse_row_memmaps
ShapeOk(num_elements, num_rows) == num_elements > 0 /\ num_rows > 0

\* the three files _create_compressed_sparse_row_memmaps leaves in a
\* directory: mode w+ creates (or truncates) them, filled with zeros
create_compressed_sparse_row_memmaps(dir, num_elements, num_rows, dtype) ==
    [dir EXCEPT !.exists = TRUE,
                !.files  = @ \cup {DATA, COLPTR, ROWPTR},
                !.data   = Encode(Zeros(num_elements), dtype),
                !.col    = Zeros(num_elements),
                !.row    = Zeros(num_rows + 1)]

init_arrs(o, dir, num_elements, num_rows) ==
    LET o1 == [o EXCEPT !.mode = CREATE_APPEND]
    IN  IF ~ShapeOk(num_elements, num_rows) THEN Outcome("ValueError", o1, dir)
        ELSE LET d1 == create_compressed_sparse_row_memmaps(
                           dir, num_elements, num_rows, o1.dtype_data)
             IN  Outcome("ok",
                         [o1 EXCEPT !.data      = MemmapItems(d1.data, o1.dtype_data),
                                    !.col_index = d1.col,
                                    !.row_index = d1.row],
                         d1)

\* only the artifact save has just written is looked for
SaveChecked_FeaturesOnly == {FEATURES}

\* the missing artifacts save looks for
SaveChecked == {VERSION, DATA, COLPTR, ROWPTR, FEATURES}

save(o, dir) ==
    LET rows == number_of_rows(o)
        o1   == IF o.metadata.has_num_rows THEN o
                ELSE [o EXCEPT !.metadata = [has_num_rows |-> TRUE, num_rows |-> rows.value]]
        d1   == [dir EXCEPT !.files    = @ \cup {METADATA, FEATURES},
                            !.metadata = o1.metadata,
                            !.features = o1.feature_index]
    IN  IF ~o.metadata.has_num_rows /\ rows.status # "ok" THEN Outcome(rows.status, o, dir)
        ELSE IF ~dir.exists THEN Outcome("FileNotFoundError", o1, dir)
        ELSE IF \E f \in SaveChecked : ~FileExists(d1, f)
             THEN Outcome("FileNotFoundError", o1, d1)
        ELSE Outcome("ok", o1, d1)

\* metadata.json is not looked for
MetadataMissing_Never(dir) == FALSE

\* metadata.json is required
MetadataMissing(dir) == ~FileExists(dir, METADATA)

load(o, dir, stored_path) ==
    LET o1 == [o EXCEPT !.data_path = stored_path, !.mode = READ_APPEND]
        o2 == [o1 EXCEPT !.metadata      = dir.metadata,
                         !.feature_index = IF FileExists(dir, FEATURES) THEN dir.features ELSE @,
                         !.dtype_data    = IF FileExists(dir, DTYPE) THEN dir.dtypes ELSE @]
        o3 == [o2 EXCEPT !.data = MemmapItems(dir.data, o2.dtype_data)]
        o4 == [o3 EXCEPT !.row_index = dir.row]
        o5 == [o4 EXCEPT !.col_index = dir.col]
    IN  IF ~dir.exists THEN Outcome("FileNotFoundError", o, dir)
        ELSE IF MetadataMissing(dir) THEN Outcome("FileNotFoundError", o1, dir)
        ELSE IF ~FileExists(dir, DATA) THEN Outcome("FileNotFoundError", o2, dir)
        ELSE IF ~MemmapFits(dir.data, o2.dtype_data) THEN Outcome("ValueError", o2, dir)
        ELSE IF ~FileExists(dir, ROWPTR) THEN Outcome("FileNotFoundError", o3, dir)
        ELSE IF ~FileExists(dir, COLPTR) THEN Outcome("FileNotFoundError", o4, dir)
        ELSE Outcome("ok", o5, dir)

\* the row pointers are left as allocated
StoreSource_WithoutRowPointers(o, src) ==
    [o EXCEPT !.data      = Assign(@, 0, Len(src.indices), src.data),
              !.col_index = Assign(@, 0, Len(src.indices), src.indices)]

\* the three slice assignments of load_h5ad: the source's values, column ids
\* and row pointers written into the arrays just created
StoreSource(o, src) ==
    [o EXCEPT !.data      = Assign(@, 0, Len(src.indices), src.data),
              !.col_index = Assign(@, 0, Len(src.indices), src.indices),
              !.row_index = Assign(@, 0, src.n_obs + 1, src.indptr)]

load_h5ad(o, dir, src) ==
    LET num_rows            == src.n_obs
        num_elements_stored == Len(src.indices)
        o1 == [o EXCEPT !.dtype_data    = src.dtype,
                        !.feature_index = FI_append_features(@, num_rows, src.n_vars)]
        r  == init_arrs(o1, dir, num_elements_stored, num_rows)
        o2 == StoreSource(r.obj, src)
    IN  IF src.kind = "missing" THEN Outcome("FileNotFoundError", o, dir)
        ELSE IF src.kind # "sparse" THEN Outcome("NotImplementedError", o, dir)
        ELSE IF r.status # "ok" THEN r
        ELSE save(o2, [r.dir EXCEPT !.data = Encode(o2.data, o2.dtype_data),
                                    !.col  = o2.col_index,
                                    !.row  = o2.row_index])

\* a num_rows / num_elements argument: None, an int, or something else
ArgNone   == [kind |-> "none", v |-> 0]
ArgInt(n) == [kind |-> "int", v |-> n]
ArgFloat  == [kind |-> "float", v |-> 1]

ShapeArgs == {ArgNone, ArgFloat} \cup {ArgInt(n) : n \in -1..MaxShape}

\* only create mode on an existing path is refused
PathConflict_CreateModeOnly(dir, h5ad, mode) == mode = CREATE_APPEND /\ dir.exists

\* the two FileExistsError tests of __init__: create mode on an existing
\* path, or an external source together with an existing path
PathConflict(dir, h5ad, mode) ==
    \/ mode = CREATE_APPEND /\ dir.exists
    \/ h5ad.kind # "none" /\ dir.exists

\* only num_rows is matched
ShapeGiven_RowsOnly(num_rows, num_elements) == num_rows.kind = "int"

\* match num_rows, num_elements: case (int(), int())
ShapeGiven(num_rows, num_elements) == num_rows.kind = "int" /\ num_elements.kind = "int"

\* __init__(data_path, h5ad_path, num_elements, num_rows, mode)
init(dir, data_path, h5ad, num_elements, num_rows, mode) ==
    LET o == NewObj(data_path, mode)
    IN  IF PathConflict(dir, h5ad, mode) THEN Outcome("FileExistsError", o, dir)
        ELSE IF dir.exists THEN load(o, init_obj(dir), data_path)
        ELSE IF h5ad.kind # "none" THEN load_h5ad(o, init_obj(dir), h5ad)
        ELSE IF ShapeGiven(num_rows, num_elements)
             THEN init_arrs(o, init_obj(dir), num_elements.v, num_rows.v)
        ELSE Outcome("ValueError", o, dir)

----------------------------------------------------------------------------
\* concat.

\* _swap_mmap_array(src in the temporary directory, dest = the live file,
\* destroy_src = True): both files must exist; afterwards the live name holds
\* the new array and the old one is removed with the temporary file.
swap_mmap_array(dir, name, content) ==
    IF ~FileExists(dir, name) THEN [status |-> "FileNotFoundError", dir |-> dir]
    ELSE [status |-> "ok",
          dir    |-> CASE name = DATA   -> [dir EXCEPT !.data = content]
                       [] name = COLPTR -> [dir EXCEPT !.col = content]
                       [] OTHER         -> [dir EXCEPT !.row = content]]

\* the copy loop's state: the three new arrays, the schema of self as merged
\* so far, and the two counters
CopyStart(self, total_num_elements, total_num_rows) ==
    [status   |-> "ok",
     data_arr |-> Zeros(total_num_elements),
     col_arr  |-> Zeros(total_num_elements),
     row_arr  |-> Zeros(total_num_rows + 1),
     fi       |-> self.feature_index,
     cumulative_elements |-> 0,
     cumulative_rows     |-> 0]

\* the shift taken from the element counter
RowPointerShift_ByElements(st) == st.cumulative_elements

\* the shift applied to an input's row pointers
RowPointerShift(st) == st.cumulative_rows

\* if self.number_of_rows() > 0: copy self's three arrays to the front
CopySelf(st, self) ==
    LET n    == number_nonzero_values(self)
        rows == number_of_rows(self).value
    IN  IF rows <= 0 THEN st
        ELSE IF ~CanAssign(st.data_arr, 0, n, self.data)
                \/ ~CanAssign(st.col_arr, 0, n, self.col_index)
                \/ ~CanAssign(st.row_arr, 0, rows + 1, self.row_index)
             THEN [st EXCEPT !.status = "ValueError"]
        ELSE [st EXCEPT !.data_arr = Assign(@, 0, n, self.data),
                        !.col_arr  = Assign(@, 0, n, self.col_index),
                        !.row_arr  = Assign(@, 0, rows + 1, self.row_index),
                        !.cumulative_elements = n,
                        !.cumulative_rows     = rows]

\* one turn of `for mmap in mmaps`
CopyInput(st, mmap) ==
    LET n    == number_nonzero_values(mmap)
        rows == number_of_rows(mmap).value
        ce   == st.cumulative_elements
        cr   == st.cumulative_rows
        ptrs == AddAll(mmap.row_index, RowPointerShift(st))
    IN  IF st.status # "ok" THEN st
        ELSE IF ~CanAssign(st.data_arr, ce, ce + n, mmap.data)
                \/ ~CanAssign(st.col_arr, ce, ce + n, mmap.col_index)
                \/ ~CanAssign(st.row_arr, cr, cr + rows + 1, ptrs)
             THEN [st EXCEPT !.status = "ValueError"]
        ELSE [st EXCEPT !.data_arr = Assign(@, ce, ce + n, mmap.data),
                        !.col_arr  = Assign(@, ce, ce + n, mmap.col_index),
                        !.row_arr  = Assign(@, cr, cr + rows + 1, ptrs),
                        !.fi       = FI_concat(@, mmap.feature_index),
                        !.cumulative_elements = ce + n,
                        !.cumulative_rows     = cr + rows]

RECURSIVE CopyInputs(_, _)
CopyInputs(st, mmaps) ==
    IF mmaps = <<>> THEN st ELSE CopyInputs(CopyInput(st, Head(mmaps)), Tail(mmaps))

\* self.concat(mmaps); mmaps are other objects than self
concat(self, mmaps, dir) ==
    LET self1     == [self EXCEPT !.mode = READ_APPEND]
        rows_self == number_of_rows(self1)
        total_num_elements ==
            (IF rows_self.value > 0 THEN number_nonzero_values(self1) ELSE 0)
            + SumSeq([i \in 1..Len(mmaps) |-> number_nonzero_values(mmaps[i])])
        total_num_rows ==
            rows_self.value + SumSeq([i \in 1..Len(mmaps) |-> number_of_rows(mmaps[i]).value])
        st    == CopyInputs(CopySelf(CopyStart(self1, total_num_elements, total_num_rows),
                                     self1), mmaps)
        self2 == [self1 EXCEPT !.feature_index = st.fi]
        s1    == swap_mmap_array(dir, DATA, Encode(st.data_arr, self1.dtype_data))
        s2    == swap_mmap_array(s1.dir, COLPTR, st.col_arr)
        s3    == swap_mmap_array(s2.dir, ROWPTR, st.row_arr)
        self3 == [self2 EXCEPT
                    !.data      = Slice(MemmapItems(s3.dir.data, self1.dtype_data),
                                        0, st.cumulative_elements),
                    !.row_index = Slice(s3.dir.row, 0, st.cumulative_rows + 1),
                    !.col_index = Slice(s3.dir.col, 0, st.cumulative_elements)]
    IN  IF \E i \in 1..Len(mmaps) : version(self) # version(mmaps[i])
        THEN Outcome("ValueError", self, dir)
        ELSE IF rows_self.status # "ok"
                \/ \E i \in 1..Len(mmaps) : number_of_rows(mmaps[i]).status # "ok"
             THEN Outcome("ValueError", self1, dir)
        ELSE IF ~dir.exists THEN Outcome("FileNotFoundError", self1, dir)
        ELSE IF ~ShapeOk(total_num_elements, total_num_rows)
             THEN Outcome("ValueError", self1, dir)
        ELSE IF st.status # "ok" THEN Outcome(st.status, self2, dir)
        ELSE IF s1.status # "ok" THEN Outcome(s1.status, self2, s1.dir)
        ELSE IF s2.status # "ok" THEN Outcome(s2.status, self2, s2.dir)
        ELSE IF s3.status # "ok" THEN Outcome(s3.status, self2, s3.dir)
        ELSE save(self3, s3.dir)

----------------------------------------------------------------------------
\* The state machine: a program that constructs datasets on store paths,
\* loads, saves and concatenates them.

NoCall ==
    [op |-> "none", v |-> "", path |-> "", status |-> "ok", h5ad |-> NoSource,
     num_elements |-> ArgNone, num_rows |-> ArgNone, mode |-> READ_APPEND,
     others |-> <<>>, pre |-> [v \in ObjIds |-> NoObj], pre_dir |-> NoDir]

Init ==
    /\ disk = [p \in Paths |-> NoDir]
    /\ objs = [v \in ObjIds |-> NoObj]
    /\ last = NoCall

\* v = SingleCellMemMapDataset(p, h5ad, num_elements, num_rows, mode) for a
\* variable v not bound yet; when the constructor raises, v stays unbound
Construct(v, p, h5ad, num_elements, num_rows, mode) ==
    LET r == init(disk[p], p, h5ad, num_elements, num_rows, mode)
    IN  /\ ~objs[v].alive
        /\ disk' = [disk EXCEPT ![p] = r.dir]
        /\ objs' = IF r.status = "ok" THEN [objs EXCEPT ![v] = r.obj] ELSE objs
        /\ last' = [NoCall EXCEPT !.op = "construct", !.v = v, !.path = p,
                                  !.status = r.status, !.h5ad = h5ad,
                                  !.num_elements = num_elements, !.num_rows = num_rows,
                                  !.mode = mode, !.pre_dir = disk[p]]

\* objs[v].load(p)
Load(v, p) ==
    LET r == load(objs[v], disk[p], p)
    IN  /\ objs[v].alive
        /\ objs' = [objs EXCEPT ![v] = r.obj]
        /\ last' = [NoCall EXCEPT !.op = "load", !.v = v, !.path = p, !.status = r.status,
                                  !.pre_dir = disk[p]]
        /\ UNCHANGED disk

\* objs[v].save()
Save(v) ==
    LET p == objs[v].data_path
        r == save(objs[v], disk[p])
    IN  /\ objs[v].alive
        /\ disk' = [disk EXCEPT ![p] = r.dir]
        /\ objs' = [objs EXCEPT ![v] = r.obj]
        /\ last' = [NoCall EXCEPT !.op = "save", !.v = v, !.path = p, !.status = r.status,
                                  !.pre_dir = disk[p]]

RowsHeld(o) == Len(o.row_index) - 1

\* objs[v].concat([objs[w] for w in others])
Concat(v, others) ==
    LET p == objs[v].data_path
        mmaps == [i \in 1..Len(others) |-> objs[others[i]]]
        r == concat(objs[v], mmaps, disk[p])
    IN  /\ objs[v].alive
        /\ \A i \in 1..Len(others) : others[i] # v /\ objs[others[i]].alive
        /\ RowsHeld(objs[v]) + SumSeq([i \in 1..Len(others) |-> RowsHeld(mmaps[i])]) <= MaxRows
        /\ disk' = [disk EXCEPT ![p] = r.dir]
        /\ objs' = [objs EXCEPT ![v] = r.obj]
        /\ last' = [NoCall EXCEPT !.op = "concat", !.v = v, !.path = p, !.status = r.status,
                                  !.others = others, !.pre = objs, !.pre_dir = disk[p]]

\* the shapes passed to a fresh construction in Spec
FreshShapes == {ArgInt(n) : n \in 1..MaxShape}

\* the program of Spec: A and C are handles on the store at p1, B is a
\* handle on the store at p2
Binds == {<<"A", "p1">>, <<"B", "p2">>, <<"C", "p1">>}

Next ==
    \/ \E b \in Binds, h5ad \in Sources :
          Construct(b[1], b[2], h5ad, ArgNone, ArgNone, READ_APPEND)
    \/ \E b \in Binds :
          Construct(b[1], b[2], NoSource, ArgNone, ArgNone, READ_APPEND)
    \/ \E b \in Binds, ne \in FreshShapes, nr \in FreshShapes :
          Construct(b[1], b[2], NoSource, ne, nr, READ_APPEND)
    \/ \E v \in ObjIds : Save(v)
    \/ \E v \in ObjIds, w \in ObjIds : Concat(v, <<w>>)

Spec == Init /\ [][Next]_vars

----------------------------------------------------------------------------
\* A second program, for the constructor's argument handling: every
\* combination of shape arguments and modes, with and without an external
\* source, on paths that exist or not, and load called on a bound object.

ArgSources == {MkSource(<< <<0, 2>> >>, "float32"), BadSource("missing")}

\* both handles are on the store at p1
ArgBinds == {<<"A", "p1">>, <<"C", "p1">>}

NextArgs ==
    \/ \E b \in ArgBinds, h5ad \in ArgSources, mode \in Modes :
          Construct(b[1], b[2], h5ad, ArgNone, ArgNone, mode)
    \/ \E b \in ArgBinds, ne \in ShapeArgs, nr \in ShapeArgs, mode \in Modes :
          Construct(b[1], b[2], NoSource, ne, nr, mode)
    \/ \E v \in ObjIds, p \in Paths : Load(v, p)
    \/ \E v \in ObjIds : Save(v)

SpecArgs == Init /\ [][NextArgs]_vars

----------------------------------------------------------------------------
\* Properties.

\* the last call was v.concat([w]) and returned normally
ConcatDone == last.op = "concat" /\ last.status = "ok" /\ Len(last.others) = 1

\* the receiver and the input of the last concat as they were before it
ConcatSelfBefore  == last.pre[last.v]
ConcatOtherBefore == last.pre[last.others[1]]

\* both stores of the last concat held at least one row, by number_of_rows()
ConcatOfNonEmpty ==
    /\ ConcatDone
    /\ number_of_rows(ConcatSelfBefore).status = "ok"
    /\ number_of_rows(ConcatOtherBefore).status = "ok"
    /\ number_of_rows(ConcatSelfBefore).value >= 1
    /\ number_of_rows(ConcatOtherBefore).value >= 1

\* C1: after A.concat(B), for A with m >= 1 rows and B with n >= 1 rows, A
\* has m + n rows, A.get_row(i) for i < m is what it was before the concat
\* and A.get_row(m + j) for j < n is B.get_row(j).
C1_ConcatAppendsRows ==
    ConcatOfNonEmpty =>
        LET m == number_of_rows(ConcatSelfBefore).value
            n == number_of_rows(ConcatOtherBefore).value
            A == objs[last.v]
        IN  /\ number_of_rows(A).status = "ok"
            /\ number_of_rows(A).value = m + n
            /\ \A i \in 0..(m - 1) : get_row(A, i) = get_row(ConcatSelfBefore, i)
            /\ \A j \in 0..(n - 1) : get_row(A, m + j) = get_row(ConcatOtherBefore, j)

\* the last call was a constructor call that found the store directory and
\* loaded it (data_path exists, no external source)
LoadedByConstructor ==
    last.op = "construct" /\ last.h5ad = NoSource /\ last.pre_dir.exists

\* the object and the directory that ingesting source s at `path`, then
\* save(), leaves
IngestedThenSaved(s, path) ==
    LET ing == init(NoDir, path, s, ArgNone, ArgNone, READ_APPEND)
    IN  IF ing.status = "ok" THEN save(ing.obj, ing.dir) ELSE ing

\* the queries of two objects agree: number_of_rows(), number_of_values()
\* and get_row(i) of every row
SameRows(x, y) ==
    /\ number_of_rows(x).status = "ok"
    /\ number_of_rows(y).status = "ok"
    /\ number_of_rows(x).value = number_of_rows(y).value
    /\ number_of_values(x) = number_of_values(y)
    /\ \A i \in 0..(number_of_rows(y).value - 1) :
          /\ i + 1 < Len(x.row_index)
          /\ get_row(x, i) = get_row(y, i)

\* C2: a store ingested from a sparse source of any value dtype, saved, and
\* loaded by a new object constructed on the same path has the same
\* number_of_rows(), number_of_values() and get_row(i) for every row i.
C2_SaveLoadRoundTrip ==
    \A s \in SparseSources :
        LET saved == IngestedThenSaved(s, last.path)
        IN  (LoadedByConstructor /\ saved.status = "ok" /\ last.pre_dir = saved.dir)
                => (last.status = "ok" /\ SameRows(objs[last.v], saved.obj))

\* o is what ingesting some sparse source leaves in memory
Ingested(o) ==
    \E s \in SparseSources, p \in Paths :
        LET ing == init(NoDir, p, s, ArgNone, ArgNone, READ_APPEND)
        IN  ing.status = "ok" /\ ing.obj = o

\* the directory loaded by the last call is what an ingestion and save left
LoadedIngestedStore ==
    /\ LoadedByConstructor
    /\ last.status = "ok"
    /\ \E s \in SparseSources :
          LET saved == IngestedThenSaved(s, last.path)
          IN  saved.status = "ok" /\ last.pre_dir = saved.dir

\* row_index[0] == 0, row_index is non-decreasing, and
\* row_index[num_rows] == len(data), with num_rows = row_index.size - 1
RowIndexWellFormed(o) ==
    /\ Len(o.row_index) >= 1
    /\ At(o.row_index, 0) = 0
    /\ \A i \in 0..(Len(o.row_index) - 2) : At(o.row_index, i) <= At(o.row_index, i + 1)
    /\ Last(o.row_index) = Len(o.data)

\* C3: a store built by ingestion keeps row_index[0] == 0, row_index
\* non-decreasing and row_index[num_rows] == len(data) through concat, save
\* and load; stated for an ingested store, for a store loaded from what an
\* ingested store saved, and for the concat of two ingested stores.
C3_RowIndexWellFormed ==
    /\ \A v \in ObjIds : Ingested(objs[v]) => RowIndexWellFormed(objs[v])
    /\ LoadedIngestedStore => RowIndexWellFormed(objs[last.v])
    /\ (ConcatDone /\ Ingested(ConcatSelfBefore) /\ Ingested(ConcatOtherBefore))
          => RowIndexWellFormed(objs[last.v])

\* the last call was a constructor call that ingested an external sparse
\* source and returned normally
IngestDone ==
    last.op = "construct" /\ last.status = "ok" /\ last.h5ad.kind = "sparse"

PaddedRowMatches(o, i) ==
    LET padded == get_row_padded(o, i)
        row    == get_row(o, i)
    IN  /\ padded.status = "ok"
        /\ Len(padded.value) = FI_number_vars_at_row(o.feature_index, i)
        /\ Len(row.columns) = Len(row.values)
        /\ \A k \in 1..Len(row.values) :
              /\ row.columns[k] < Len(padded.value)
              /\ At(padded.value, row.columns[k]) = row.values[k]
        /\ \A c \in 0..(Len(padded.value) - 1) :
              (\A k \in 1..Len(row.columns) : row.columns[k] # c) => At(padded.value, c) = 0

\* C5: for every valid row index i (0 <= i < number_of_rows()),
\* get_row_padded(i) has the length of row i's schema block, equals the
\* stored value at every column id listed in get_row(i) and is zero at
\* every other index.
C5_PaddedRowMatchesRow ==
    \A v \in ObjIds :
        (objs[v].alive /\ number_of_rows(objs[v]).status = "ok")
            => \A i \in 0..(number_of_rows(objs[v]).value - 1) : PaddedRowMatches(objs[v], i)

\* C6: ingesting an external CSR source copies its arrays verbatim:
\* row_index equals the source's row pointers, number_of_rows() its row
\* count and get_row(i) its row i, for every i; the 3-row source with
\* counts [2,0,3] gives row_index == [0,2,2,5], get_row_padded(1) all
\* zeros, get_row_padded(2) == [1,0,4,0,9] and number_of_rows() == 3.
C6_IngestCopiesVerbatim ==
    /\ IngestDone =>
          LET o == objs[last.v]
              s == last.h5ad
          IN  /\ o.row_index = s.indptr
              /\ o.data = s.data
              /\ o.col_index = s.indices
              /\ number_of_rows(o).status = "ok"
              /\ number_of_rows(o).value = s.n_obs
              /\ \A i \in 0..(s.n_obs - 1) : get_row(o, i) = SourceRow(s, i)
    /\ (IngestDone /\ last.h5ad = ScenarioSource) =>
          LET o == objs[last.v]
          IN  /\ o.row_index = <<0, 2, 2, 5>>
              /\ get_row_padded(o, 1).status = "ok"
              /\ get_row_padded(o, 1).value = <<0, 0, 0, 0, 0>>
              /\ get_row_padded(o, 2).status = "ok"
              /\ get_row_padded(o, 2).value = <<1, 0, 4, 0, 9>>
              /\ number_of_rows(o).value = 3

\* the 3-row source has been ingested and its row 2 reads back padded
C6_ScenarioRowsReadBack ==
    /\ IngestDone
    /\ last.h5ad = ScenarioSource
    /\ objs[last.v].row_index = <<0, 2, 2, 5>>
    /\ get_row(objs[last.v], 0) = [values |-> <<5, 2>>, columns |-> <<1, 3>>]
    /\ get_row_padded(objs[last.v], 2).value = <<1, 0, 4, 0, 9>>

\* the last call was a constructor call on a path that did not exist, without
\* an external source
FreshConstruct ==
    last.op = "construct" /\ ~last.pre_dir.exists /\ last.h5ad = NoSource

\* C7: constructing in fresh mode (data_path does not exist, no external
\* source) with integer num_elements <= 0 or integer num_rows <= 0 raises
\* ValueError.
C7_NonPositiveShapeRaises ==
    (/\ FreshConstruct
     /\ last.num_rows.kind = "int"
     /\ last.num_elements.kind = "int"
     /\ (last.num_elements.v <= 0 \/ last.num_rows.v <= 0))
        => (last.status = "ValueError" /\ ~objs[last.v].alive)

\* a fresh construction with num_rows = 0 and a positive num_elements raised
C7_ZeroRowsRaised ==
    /\ FreshConstruct
    /\ last.num_rows = ArgInt(0)
    /\ last.num_elements = ArgInt(1)
    /\ last.status = "ValueError"

\* C8: constructing on a data_path that exists together with an external
\* source, or in create mode 'w+', raises FileExistsError before anything in
\* the existing store is created, loaded or modified.
C8_ExistingPathConflictRaises ==
    (/\ last.op = "construct"
     /\ last.pre_dir.exists
     /\ (last.h5ad # NoSource \/ last.mode = CREATE_APPEND))
        => /\ last.status = "FileExistsError"
           /\ disk[last.path] = last.pre_dir
           /\ ~objs[last.v].alive

\* an external source was passed with the path of a store that holds arrays,
\* in the default mode, and the call raised
C8_SourceOnExistingStoreRaised ==
    /\ last.op = "construct"
    /\ last.h5ad.kind = "sparse"
    /\ last.mode = READ_APPEND
    /\ FileExists(last.pre_dir, DATA)
    /\ last.status = "FileExistsError"

\* the last call loaded, or tried to load, an existing directory: a
\* constructor call with only a data_path in the default mode, or load()
LoadAttempt ==
    \/ last.op = "construct" /\ last.h5ad = NoSource /\ last.mode = READ_APPEND
          /\ last.pre_dir.exists
    \/ last.op = "load" /\ last.pre_dir.exists

\* C9: loading a store (by the constructor or by load) from a directory
\* without metadata.json raises FileNotFoundError, whatever else the
\* directory holds.
C9_LoadWithoutMetadataRaises ==
    (LoadAttempt /\ METADATA \notin last.pre_dir.files)
        => last.status = "FileNotFoundError"

\* a directory holding the three arrays but no metadata.json was loaded, and
\* the load raised
C9_ArraysWithoutMetadataRaised ==
    /\ LoadAttempt
    /\ METADATA \notin last.pre_dir.files
    /\ {DATA, COLPTR, ROWPTR} \subseteq last.pre_dir.files
    /\ last.status = "FileNotFoundError"

\* C10: constructing on a data_path that does not exist, without an
\* external source and without both num_rows and num_elements given as
\* integers, raises ValueError: no object results and nothing is created on
\* disk.
C10_UnresolvableInputRaises ==
    (FreshConstruct /\ ~(last.num_rows.kind = "int" /\ last.num_elements.kind = "int"))
        => /\ last.status = "ValueError"
           /\ ~objs[last.v].alive
           /\ ~disk[last.path].exists
           /\ disk[last.path] = last.pre_dir

\* only num_rows was given as an integer, and the call raised
C10_OnlyRowsGivenRaised ==
    /\ FreshConstruct
    /\ last.num_rows = ArgInt(1)
    /\ last.num_elements = ArgNone
    /\ last.status = "ValueError"
    /\ ~disk[last.path].exists

\* what C11 expects of get_row_column(i, column) on a row whose column ids
\* are distinct: the value stored with `column` if the row lists it,
\* otherwise 0.0 or None
ExpectedRowColumn(o, i, column, impute_missing_zeros) ==
    LET row  == get_row(o, i)
        hits == {k \in 1..Len(row.columns) : row.columns[k] = column}
    IN  IF hits # {} THEN PyFloat(row.values[CHOOSE k \in hits : TRUE])
        ELSE IF impute_missing_zeros THEN PyFloat(0) ELSE PyNone

\* C11: for any valid row index and any column id, get_row_column returns
\* the stored value when the row lists that column id, in whatever order
\* the row's column ids are stored, and otherwise 0.0 (impute_missing_zeros)
\* or None; stated for the rows of a store just ingested.
C11_RowColumnFindsStoredValue ==
    IngestDone =>
        \A i \in 0..(last.h5ad.n_obs - 1), column \in 0..(last.h5ad.n_vars - 1),
           impute_missing_zeros \in BOOLEAN :
            get_row_column(objs[last.v], i, column, impute_missing_zeros)
                = ExpectedRowColumn(objs[last.v], i, column, impute_missing_zeros)

----------------------------------------------------------------------------
\* A third program: the store at p2 was written by an earlier release of the
\* library, so its version.json holds another version than the one the
\* running process writes.

OldLibVersion == "0.0.1"

\* the directory an earlier release left after ingesting a one-row source
OldStore ==
    [IngestedThenSaved(MkSource(<< <<0, 2>> >>, "float32"), "p2").dir
        EXCEPT !.version = OldLibVersion]

InitVersions ==
    /\ disk = [p \in Paths |-> IF p = "p2" THEN OldStore ELSE NoDir]
    /\ objs = [v \in ObjIds |-> NoObj]
    /\ last = NoCall

NextVersions ==
    \/ \E b \in Binds, h5ad \in SparseSources :
          Construct(b[1], b[2], h5ad, ArgNone, ArgNone, READ_APPEND)
    \/ \E b \in Binds :
          Construct(b[1], b[2], NoSource, ArgNone, ArgNone, READ_APPEND)
    \/ \E v \in ObjIds : Save(v)
    \/ \E v \in ObjIds, w \in ObjIds : Concat(v, <<w>>)

SpecVersions == InitVersions /\ [][NextVersions]_vars

\* version.json of self's store and of the input's store, when the last
\* concat was called
ConcatSelfDiskVersion  == last.pre_dir.version
ConcatOtherDiskVersion == disk[ConcatOtherBefore.data_path].version

\* C12: concat fails with an error and leaves self unchanged whenever the
\* version.json of an input store differs from the version.json of self's
\* store, also when both stores were opened by load in the same process.
C12_ConcatRefusesOtherDiskVersion ==
    (/\ last.op = "concat"
     /\ Len(last.others) = 1
     /\ ConcatOtherBefore.data_path # last.path
     /\ ConcatSelfDiskVersion # ConcatOtherDiskVersion)
        => (last.status # "ok" /\ objs[last.v] = ConcatSelfBefore)

----------------------------------------------------------------------------
\* A fourth program: concat called with a list of two inputs.

\* one-row sources: two stored entries over 3 columns, one stored entry in
\* column 1, one stored entry in column 0
ListSources ==
    {MkSource(<< <<0, 2>> >>, "float32"),
     MkSource(<< <<1>> >>, "float32"),
     MkSource(<< <<0>> >>, "float32")}

NextList ==
    \/ \E b \in Binds, h5ad \in ListSources :
          Construct(b[1], b[2], h5ad, ArgNone, ArgNone, READ_APPEND)
    \/ \E b \in Binds :
          Construct(b[1], b[2], NoSource, ArgNone, ArgNone, READ_APPEND)
    \/ \E v \in ObjIds, w \in ObjIds : \E x \in ObjIds \ {w} : Concat(v, <<w, x>>)

SpecList == Init /\ [][NextList]_vars

\* the last call was v.concat([w, x]) on three stores of at least one row
\* each, and returned normally
ConcatOfTwoDone ==
    /\ last.op = "concat"
    /\ last.status = "ok"
    /\ Len(last.others) = 2
    /\ \A u \in {last.v, last.others[1], last.others[2]} :
          number_of_rows(last.pre[u]).status = "ok" /\ number_of_rows(last.pre[u]).value >= 1

\* the data and column arrays of the result are self's, then B1's, then
\* B2's, and so are the schema blocks
SegmentsInListOrder ==
    LET A  == objs[last.v]
        A0 == last.pre[last.v]
        B1 == last.pre[last.others[1]]
        B2 == last.pre[last.others[2]]
    IN  /\ A.data = A0.data \o B1.data \o B2.data
        /\ A.col_index = A0.col_index \o B1.col_index \o B2.col_index
        /\ A.feature_index = A0.feature_index \o B1.feature_index \o B2.feature_index

\* the rows of the result are self's, then B1's, then B2's
RowsInListOrder ==
    LET A  == objs[last.v]
        A0 == last.pre[last.v]
        B1 == last.pre[last.others[1]]
        B2 == last.pre[last.others[2]]
        m  == number_of_rows(A0).value
        n1 == number_of_rows(B1).value
        n2 == number_of_rows(B2).value
    IN  /\ Len(A.row_index) = m + n1 + n2 + 1
        /\ \A i \in 0..(m - 1) : get_row(A, i) = get_row(A0, i)
        /\ \A j \in 0..(n1 - 1) : get_row(A, m + j) = get_row(B1, j)
        /\ \A j \in 0..(n2 - 1) : get_row(A, m + n1 + j) = get_row(B2, j)

\* C13: concat([B1, B2]) processes the inputs in list order: in the result
\* self's rows come first, then B1's rows, then B2's rows, and the
\* data/column segments and the schema blocks are in that same order.
C13_ConcatKeepsListOrder ==
    ConcatOfTwoDone => (RowsInListOrder /\ SegmentsInListOrder)

----------------------------------------------------------------------------
\* concat step by step, for a process that dies in the middle of it.  The
\* disk is followed through the statements of concat that touch it; the
\* stages are named after the statement that has just completed.

\* the temporary directory concat makes inside self.data_path
TMP == "_tmp"

\* the new arrays as they are when the copy loop has ended
ConcatNewArrays(self, mmaps) ==
    LET self1     == [self EXCEPT !.mode = READ_APPEND]
        rows_self == number_of_rows(self1)
        total_num_elements ==
            (IF rows_self.value > 0 THEN number_nonzero_values(self1) ELSE 0)
            + SumSeq([i \in 1..Len(mmaps) |-> number_nonzero_values(mmaps[i])])
        total_num_rows ==
            rows_self.value + SumSeq([i \in 1..Len(mmaps) |-> number_of_rows(mmaps[i]).value])
    IN  CopyInputs(CopySelf(CopyStart(self1, total_num_elements, total_num_rows), self1),
                   mmaps)

\* the new arrays are created at the live paths
AllocateTmp_InPlace(dir) == create_compressed_sparse_row_memmaps(dir, 1, 1, DefaultDataDtype)

\* tempfile.TemporaryDirectory(prefix="_tmp", dir=self.data_path) and the
\* three arrays created in it: the live files are not touched
AllocateTmp(dir) == [dir EXCEPT !.files = @ \cup {TMP}]

\* the live file `name` is away from its path
RemoveArray(dir, name) ==
    LET d == [dir EXCEPT !.files = @ \ {name}]
    IN  CASE name = DATA   -> [d EXCEPT !.data = <<>>]
          [] name = COLPTR -> [d EXCEPT !.col = <<>>]
          [] OTHER         -> [d EXCEPT !.row = <<>>]

\* the rename leaves the old content at the live path
PutArray_KeepOld(dir, name, content) == [dir EXCEPT !.files = @ \cup {name}]

\* the live path `name` holds `content`
PutArray(dir, name, content) ==
    LET d == [dir EXCEPT !.files = @ \cup {name}]
    IN  CASE name = DATA   -> [d EXCEPT !.data = content]
          [] name = COLPTR -> [d EXCEPT !.col = content]
          [] OTHER         -> [d EXCEPT !.row = content]

\* the store directory after each of the four file operations of
\* _swap_mmap_array(src = the new array in TMP, dest = the live file):
\*   1. shutil.move(src_path, temp_file_name)
\*   2. shutil.move(dest_path, src_path)
\*   3. shutil.move(temp_file_name, dest_path)
\*   4. os.remove(src_path)
SwapSteps(dir, name, content) ==
    <<dir,
      RemoveArray(dir, name),
      PutArray(dir, name, content),
      PutArray(dir, name, content)>>

\* the names of the stages of one swap
SwapStageNames(name) ==
    CASE name = DATA ->
           <<"data: new moved to temp", "data: live moved to src",
             "data: temp moved to live", "data: src removed">>
      [] name = COLPTR ->
           <<"col: new moved to temp", "col: live moved to src",
             "col: temp moved to live", "col: src removed">>
      [] OTHER ->
           <<"row: new moved to temp", "row: live moved to src",
             "row: temp moved to live", "row: src removed">>

SwapStages(dir, name, content) ==
    [i \in 1..4 |-> [stage |-> SwapStageNames(name)[i], dir |-> SwapSteps(dir, name, content)[i]]]

\* the stages before the first swap begins
PreSwapStages == {"validated", "allocated", "copied"}

\* the stages of a concat that meets no error, with the directory after each
ConcatTrace(self, mmaps, dir) ==
    LET st == ConcatNewArrays(self, mmaps)
        d1 == AllocateTmp(dir)
        sd == SwapStages(d1, DATA, Encode(st.data_arr, self.dtype_data))
        sc == SwapStages(sd[4].dir, COLPTR, st.col_arr)
        sr == SwapStages(sc[4].dir, ROWPTR, st.row_arr)
        d2 == [sr[4].dir EXCEPT !.files = @ \ {TMP}]
    IN  <<[stage |-> "validated", dir |-> dir],
          [stage |-> "allocated", dir |-> d1],
          [stage |-> "copied",    dir |-> d1]>>
        \o sd \o sc \o sr
        \o <<[stage |-> "reopened",    dir |-> sr[4].dir],
             [stage |-> "tmp removed", dir |-> d2],
             [stage |-> "saved",       dir |-> concat(self, mmaps, dir).dir]>>

\* the process dies during objs[v].concat([objs[w] for w in others]), right
\* after stage k: the disk stays as that stage left it, every object is gone
ConcatCrash(v, others, k) ==
    LET p == objs[v].data_path
        mmaps == [i \in 1..Len(others) |-> objs[others[i]]]
        trace == ConcatTrace(objs[v], mmaps, disk[p])
    IN  /\ objs[v].alive
        /\ \A i \in 1..Len(others) : others[i] # v /\ objs[others[i]].alive
        /\ RowsHeld(objs[v]) + SumSeq([i \in 1..Len(others) |-> RowsHeld(mmaps[i])]) <= MaxRows
        /\ concat(objs[v], mmaps, disk[p]).status = "ok"
        /\ k \in 1..(Len(trace) - 1)
        /\ disk' = [disk EXCEPT ![p] = trace[k].dir]
        /\ objs' = [u \in ObjIds |-> NoObj]
        /\ last' = [NoCall EXCEPT !.op = "concat crash", !.v = v, !.path = p,
                                  !.status = trace[k].stage, !.others = others,
                                  !.pre = objs, !.pre_dir = disk[p]]

\* The temporary file of _swap_mmap_array lies in tempfile.TemporaryDirectory()
\* without dir=, i.e. under the system's temporary directory.  When that is
\* on another filesystem than data_path, shutil.move cannot rename: the third
\* move copies the new array into the live path and then removes the
\* temporary file.  CopyInProgress is the store directory while that copy has
\* written the first n items.
CopyInProgress(dir, name, content, n) == PutArray(RemoveArray(dir, name), name, Slice(content, 0, n))

CopyStageName(name) ==
    CASE name = DATA   -> "data: temp being copied to live"
      [] name = COLPTR -> "col: temp being copied to live"
      [] OTHER         -> "row: temp being copied to live"

\* the new content of the live array `name` in a concat
NewContent(self, mmaps, name) ==
    LET st == ConcatNewArrays(self, mmaps)
    IN  CASE name = DATA   -> Encode(st.data_arr, self.dtype_data)
          [] name = COLPTR -> st.col_arr
          [] OTHER         -> st.row_arr

\* the first of the four stages of the swap of `name` in ConcatTrace
FirstSwapStage(name) == CASE name = DATA -> 4 [] name = COLPTR -> 8 [] OTHER -> 12

\* the process dies during objs[v].concat(...) while the third move of the
\* swap of `name` is copying across filesystems, n items written
ConcatCrashInCopy(v, others, name, n) ==
    LET p == objs[v].data_path
        mmaps == [i \in 1..Len(others) |-> objs[others[i]]]
        trace == ConcatTrace(objs[v], mmaps, disk[p])
        content == NewContent(objs[v], mmaps, name)
    IN  /\ objs[v].alive
        /\ \A i \in 1..Len(others) : others[i] # v /\ objs[others[i]].alive
        /\ RowsHeld(objs[v]) + SumSeq([i \in 1..Len(others) |-> RowsHeld(mmaps[i])]) <= MaxRows
        /\ concat(objs[v], mmaps, disk[p]).status = "ok"
        /\ n < Len(content)
        /\ disk' = [disk EXCEPT ![p] =
                       CopyInProgress(trace[FirstSwapStage(name) + 1].dir, name, content, n)]
        /\ objs' = [u \in ObjIds |-> NoObj]
        /\ last' = [NoCall EXCEPT !.op = "concat crash", !.v = v, !.path = p,
                                  !.status = CopyStageName(name), !.others = others,
                                  !.pre = objs, !.pre_dir = disk[p]]

\* the largest number of items a copy is followed through
MaxCopied == 3

\* the sources of the crash program: one row with two entries, two rows
CrashSources ==
    {MkSource(<< <<0, 2>> >>, "float32"), MkSource(<< <<>>, <<1, 0>> >>, "float32")}

\* the largest number of stages a crash can come after
MaxStage == 17

\* the process is running: it has not died
Running == last.op # "concat crash"

\* two handles: A on the store at p1, B on the store at p2
PairBinds == {<<"A", "p1">>, <<"B", "p2">>}

\* one process; nothing runs after it has died
NextCrash ==
    \/ Running /\ \E b \in PairBinds, h5ad \in CrashSources :
          Construct(b[1], b[2], h5ad, ArgNone, ArgNone, READ_APPEND)
    \/ Running /\ \E b \in PairBinds, ne \in FreshShapes, nr \in FreshShapes :
          Construct(b[1], b[2], NoSource, ne, nr, READ_APPEND)
    \/ Running /\ \E b \in PairBinds, c \in PairBinds : Concat(b[1], <<c[1]>>)
    \/ Running /\ \E b \in PairBinds, c \in PairBinds, k \in 1..MaxStage :
          ConcatCrash(b[1], <<c[1]>>, k)
    \/ Running /\ \E b \in PairBinds, c \in PairBinds, name \in {DATA, COLPTR, ROWPTR},
                     n \in 0..MaxCopied :
          ConcatCrashInCopy(b[1], <<c[1]>>, name, n)

SpecCrash == Init /\ [][NextCrash]_vars

\* the process died during a concat
CrashedInConcat == last.op = "concat crash"

\* presence and content of the five live artifacts of a store directory
LiveArtifacts(dir) ==
    [files    |-> dir.files \cap {DATA, COLPTR, ROWPTR, METADATA, FEATURES},
     data     |-> dir.data,
     col      |-> dir.col,
     row      |-> dir.row,
     metadata |-> dir.metadata,
     features |-> dir.features]

\* C14: when concat is interrupted before the first array swap begins
\* (during the allocation of the temporary arrays or during the copy),
\* data.npy, col_ptr.npy, row_ptr.npy, metadata.json and the features
\* artifact at self's data_path are exactly as before the concat.
C14_CrashBeforeSwapLeavesStore ==
    /\ (CrashedInConcat /\ last.status \in PreSwapStages)
          => LiveArtifacts(disk[last.path]) = LiveArtifacts(last.pre_dir)
    /\ (last.op = "concat" /\ last.status = "ValueError")
          => LiveArtifacts(disk[last.path]) = LiveArtifacts(last.pre_dir)

\* the process died after the copy, with the temporary directory in place
C14_DiedAfterCopy ==
    /\ CrashedInConcat
    /\ last.status = "copied"
    /\ TMP \in disk[last.path].files
    /\ disk[last.path].data = last.pre_dir.data
    /\ Len(last.pre_dir.data) >= 2


\* C15: while concat swaps the three arrays, the live paths data.npy,
\* col_ptr.npy and row_ptr.npy of the store exist after every single rename
\* step of _swap_mmap_array: a process stopped between any two steps leaves
\* all three live array files in the store directory.
C15_LivePathExistsAfterEveryRename ==
    CrashedInConcat => {DATA, COLPTR, ROWPTR} \subseteq disk[last.path].files


\* C16: a store ingested from a source whose value array has dtype d keeps d
\* as its persisted data dtype: a new object constructed on the same path
\* loads and opens data.npy with dtype d, float32 or not.
C16_IngestedDtypePersisted ==
    \A s \in SparseSources :
        LET saved == IngestedThenSaved(s, last.path)
        IN  (LoadedByConstructor /\ saved.status = "ok" /\ last.pre_dir = saved.dir)
                => (last.status = "ok" /\ objs[last.v].dtype_data = s.dtype)


\* C17: whenever the feature schema's total row count differs from the row
\* count derived from the row pointers (row_index.size - 1),
\* number_of_rows() raises the consistency error instead of returning.
C17_RowCountMismatchRaises ==
    \A v \in ObjIds :
        (/\ objs[v].alive
         /\ FI_number_of_rows(objs[v].feature_index) # Len(objs[v].row_index) - 1)
            => number_of_rows(objs[v]).status = "ValueError"


----------------------------------------------------------------------------
\* A fifth program, for the feature schema: stores are ingested, created
\* fresh, saved and concatenated, and load_h5ad and load (of the object's own
\* path) are also called as methods on an object that already holds a store.

\* objs[v].load_h5ad(h5ad): the features of the source are appended to the
\* schema the object already has, the arrays are allocated anew
LoadH5ad(v, h5ad) ==
    LET p == objs[v].data_path
        r == load_h5ad(objs[v], disk[p], h5ad)
    IN  /\ objs[v].alive
        /\ FI_number_of_rows(objs[v].feature_index) + h5ad.n_obs <= MaxRows
        /\ disk' = [disk EXCEPT ![p] = r.dir]
        /\ objs' = [objs EXCEPT ![v] = r.obj]
        /\ last' = [NoCall EXCEPT !.op = "load_h5ad", !.v = v, !.path = p,
                                  !.status = r.status, !.h5ad = h5ad,
                                  !.pre_dir = disk[p]]

NextSchema ==
    \/ \E b \in PairBinds, h5ad \in CrashSources :
          Construct(b[1], b[2], h5ad, ArgNone, ArgNone, READ_APPEND)
    \/ \E b \in PairBinds, ne \in FreshShapes, nr \in FreshShapes :
          Construct(b[1], b[2], NoSource, ne, nr, READ_APPEND)
    \/ \E b \in PairBinds, h5ad \in CrashSources : LoadH5ad(b[1], h5ad)
    \/ \E b \in PairBinds : Load(b[1], b[2])
    \/ \E b \in PairBinds : Save(b[1])
    \/ \E b \in PairBinds, c \in PairBinds : Concat(b[1], <<c[1]>>)

SpecSchema == Init /\ [][NextSchema]_vars

\* the schema blocks of o count as many rows as its row pointers delimit
SchemaCountsRows(o) == FI_number_of_rows(o.feature_index) = Len(o.row_index) - 1

\* C18: after every constructor call or public operation that returns
\* normally (fresh creation, load, load_h5ad also on a populated object,
\* concat, save), the row counts of the schema blocks of the object sum to
\* its num_rows, row_index.size - 1.
C18_SchemaRowsEqualNumRows ==
    (last.op # "none" /\ last.status = "ok") => SchemaCountsRows(objs[last.v])


----------------------------------------------------------------------------
\* A sixth program, for save: load and load_h5ad are called as methods, so
\* that an object can point at a directory it did not create, and a source
\* without any stored entry, which _init_arrs refuses, leaves a directory
\* with version.json only.

SaveSources == {MkSource(<< <<0>> >>, "float32"), MkSource(<< <<>> >>, "float32")}

\* the program of SpecSave: every constructor call on p1 is given the source
\* without entries and raises; B is the handle on the store at p2
NextSave ==
    \/ \E h5ad \in SaveSources :
          Construct("B", "p2", h5ad, ArgNone, ArgNone, READ_APPEND)
    \/ Construct("A", "p1", MkSource(<< <<>> >>, "float32"), ArgNone, ArgNone, READ_APPEND)
    \/ Construct("B", "p2", NoSource, ArgNone, ArgNone, READ_APPEND)
    \/ \E ne \in FreshShapes, nr \in FreshShapes :
          Construct("B", "p2", NoSource, ne, nr, READ_APPEND)
    \/ \E h5ad \in SaveSources : LoadH5ad("B", h5ad)
    \/ \E p \in Paths : Load("B", p)
    \/ Save("B")

SpecSave == Init /\ [][NextSave]_vars


\* the last call was save()
SaveDone == last.op = "save"

\* one of the artifacts save does not write itself was absent from the
\* store directory when save was called
ArrayOrVersionAbsent == \E f \in {VERSION, DATA, COLPTR, ROWPTR} : ~FileExists(last.pre_dir, f)

\* the six artifacts of a saved store
StoreArtifacts == {VERSION, DATA, COLPTR, ROWPTR, FEATURES, METADATA}

C20_RowPointersShiftedByRowCount ==
    ConcatOfTwoDone =>
        LET A  == objs[last.v]
            B1 == last.pre[last.others[1]]
            B2 == last.pre[last.others[2]]
            m  == number_of_rows(last.pre[last.v]).value
            n1 == number_of_rows(B1).value
            n2 == number_of_rows(B2).value
        IN  /\ Len(A.row_index) = m + n1 + n2 + 1
            /\ \A i \in 0..(n1 - 1) : At(A.row_index, m + i) = At(B1.row_index, i) + m
            /\ \A i \in 0..n2 :
                  At(A.row_index, m + n1 + i) = At(B2.row_index, i) + (m + n1)

\* a concat of two inputs onto a store whose row count differs from its
\* number of stored entries
C20_ShiftedPastTwoEntryRow ==
    /\ ConcatOfTwoDone
    /\ number_of_rows(last.pre[last.v]).value = 1
    /\ number_nonzero_values(last.pre[last.v]) = 2
    /\ At(objs[last.v].row_index, 1) = 1
    /\ At(objs[last.v].row_index, 3) = At(last.pre[last.others[2]].row_index, 1) + 2

\* the stages at which the data array has been swapped and the swap of the
\* column-index array has not yet moved the live col_ptr.npy
DataSwappedOnly ==
    {"data: temp moved to live", "data: src removed", "col: new moved to temp"}

\* C21: when the process dies after the data array has been swapped and
\* before the column-index array is, the live data.npy holds the combined
\* array while the live col_ptr.npy and row_ptr.npy hold the pre-concat
\* arrays, and nothing on disk records the progress: metadata.json, the
\* features artifact and version.json are as before the concat.
C21_CrashAfterDataSwapIsPartial ==
    (CrashedInConcat /\ last.status \in DataSwappedOnly) =>
        LET self  == last.pre[last.v]
            mmaps == [i \in 1..Len(last.others) |-> last.pre[last.others[i]]]
            st    == ConcatNewArrays(self, mmaps)
            dir   == disk[last.path]
        IN  /\ {DATA, COLPTR, ROWPTR} \subseteq dir.files
            /\ dir.data = Encode(st.data_arr, self.dtype_data)
            /\ dir.col = last.pre_dir.col
            /\ dir.row = last.pre_dir.row
            /\ dir.metadata = last.pre_dir.metadata
            /\ dir.features = last.pre_dir.features
            /\ dir.version = last.pre_dir.version
            /\ dir.files \ {TMP} = last.pre_dir.files

\* the process died right after the first swap, on a store of two entries
\* that was being extended to four
C21_DiedBetweenSwaps ==
    /\ CrashedInConcat
    /\ last.status = "data: src removed"
    /\ Len(disk[last.path].data) = 4
    /\ Len(disk[last.path].col) = 2
    /\ Len(last.pre_dir.data) = 2

\* what a reader finds at the live path `name`
LiveContent(dir, name) ==
    CASE name = DATA -> dir.data [] name = COLPTR -> dir.col [] OTHER -> dir.row

\* C22: at every moment of a concat, a live array file that a reader can
\* open holds either the complete pre-concat array or the complete
\* post-concat array, never part of one.
C22_ReaderSeesWholeArray ==
    CrashedInConcat =>
        LET self  == last.pre[last.v]
            mmaps == [i \in 1..Len(last.others) |-> last.pre[last.others[i]]]
        IN  \A name \in {DATA, COLPTR, ROWPTR} :
                FileExists(disk[last.path], name) =>
                    \/ LiveContent(disk[last.path], name) = LiveContent(last.pre_dir, name)
                    \/ LiveContent(disk[last.path], name) = NewContent(self, mmaps, name)


----------------------------------------------------------------------------
\* A seventh program, for _swap_mmap_array alone: it is applied to store
\* directories in which any of the three live arrays and any of the three new
\* arrays of the temporary directory may be absent.

\* the path of the new array `name` inside the temporary directory
TmpPath(name) ==
    CASE name = DATA -> "_tmp/data.npy" [] name = COLPTR -> "_tmp/col_ptr.npy"
      [] OTHER -> "_tmp/row_ptr.npy"

ArrayNames == {DATA, COLPTR, ROWPTR}

\* only the source file is looked for
SwapPathsExist_SrcOnly(dir, src_path, dest_path) == FileExists(dir, src_path)

\* the two os.path.isfile tests of _swap_mmap_array
SwapPathsExist(dir, src_path, dest_path) ==
    FileExists(dir, src_path) /\ FileExists(dir, dest_path)

\* _swap_mmap_array(src_array, src_path, dest_array, dest_path,
\* destroy_src=True), `content` being what the source file holds: after the
\* three moves dest_path holds it and src_path, which holds the old
\* destination, is removed
SwapFiles(dir, src_path, name, content) ==
    IF ~SwapPathsExist(dir, src_path, name)
    THEN [status |-> "FileNotFoundError", dir |-> dir]
    ELSE [status |-> "ok",
          dir    |-> [PutArray(dir, name, content) EXCEPT !.files = @ \ {src_path}]]

\* a store directory holding the arrays in `present`, each with one item
SwapDir(present) ==
    [NoDir EXCEPT !.exists = TRUE,
                  !.files  = {VERSION} \cup present,
                  !.version = LibVersion,
                  !.data   = IF DATA \in present THEN Encode(<<7>>, DefaultDataDtype) ELSE <<>>,
                  !.col    = IF COLPTR \in present THEN <<0>> ELSE <<>>,
                  !.row    = IF ROWPTR \in present THEN <<0, 1>> ELSE <<>>]

InitSwap ==
    /\ \E present \in SUBSET (ArrayNames \cup {TmpPath(n) : n \in ArrayNames}) :
          disk = [p \in Paths |-> IF p = "p1" THEN SwapDir(present) ELSE NoDir]
    /\ objs = [v \in ObjIds |-> NoObj]
    /\ last = NoCall

\* _swap_mmap_array on the array `name` of the store at p1; the new array has
\* two items
Swap(name) ==
    LET content == IF name = DATA THEN Encode(<<7, 9>>, DefaultDataDtype)
                   ELSE IF name = COLPTR THEN <<0, 1>> ELSE <<0, 1, 2>>
        r == SwapFiles(disk["p1"], TmpPath(name), name, content)
    IN  /\ disk' = [disk EXCEPT !["p1"] = r.dir]
        /\ last' = [NoCall EXCEPT !.op = "swap", !.v = name, !.path = "p1",
                                  !.status = r.status, !.pre_dir = disk["p1"]]
        /\ UNCHANGED objs

NextSwap == \E name \in ArrayNames : Swap(name)

SpecSwap == InitSwap /\ [][NextSwap]_vars

\* C23: when the source file or the destination file of a swap does not
\* exist, the swap raises FileNotFoundError and renames and removes nothing:
\* the store directory, both paths included, is exactly as it was.
C23_SwapWithoutFileRaises ==
    (/\ last.op = "swap"
     /\ \/ TmpPath(last.v) \notin last.pre_dir.files
        \/ last.v \notin last.pre_dir.files)
        => /\ last.status = "FileNotFoundError"
           /\ disk[last.path] = last.pre_dir

\* a swap whose new array exists and whose live file is missing was refused
C23_SwapOntoMissingFileRaised ==
    /\ last.op = "swap"
    /\ TmpPath(last.v) \in last.pre_dir.files
    /\ last.v \notin last.pre_dir.files
    /\ last.status = "FileNotFoundError"
    /\ TmpPath(last.v) \in disk[last.path].files

\* C24: once version.json exists in a store directory, no call of the
\* program (constructing or loading the store again, ingestion, save,
\* concat) removes it or changes its content.
C24_VersionFileWrittenOnce ==
    [][\A p \in Paths :
          FileExists(disk[p], VERSION)
              => (FileExists(disk'[p], VERSION) /\ disk'[p].version = disk[p].version)]_vars

\* a store written by the older release was loaded, saved or extended by the
\* running library and still carries the older version
C24_OldStoreUsedByNewLibrary ==
    /\ last.op \in {"construct", "save", "concat"}
    /\ last.status = "ok"
    /\ last.pre_dir.version = OldLibVersion
    /\ LibVersion # OldLibVersion
    /\ disk[last.path].version = OldLibVersion


----------------------------------------------------------------------------
\* An eighth program, for the optional artifacts: the store at p1 was saved
\* by an ingestion and then has dtypes.json and the features artifact present
\* or not (save writes no dtypes.json; a directory may get one, or lose its
\* features, by other hands).  It is loaded by the constructor and by the
\* load method of an object that holds another store.

OptionalSources == {MkSource(<< <<0, 2>> >>, "float32"), MkSource(<< <<1, 0>> >>, "float64")}

\* dir with only the artifacts of `optional` among dtypes.json and features
WithOptional(dir, s, optional) ==
    [dir EXCEPT !.files    = (@ \ {FEATURES, DTYPE}) \cup optional,
                !.features = IF FEATURES \in optional THEN @ ELSE EmptyFeatureIndex,
                !.dtypes   = IF DTYPE \in optional THEN s.dtype ELSE DefaultDataDtype]

InitOptional ==
    /\ \E s \in OptionalSources, optional \in SUBSET {FEATURES, DTYPE} :
          disk = [p \in Paths |->
                    IF p = "p1" THEN WithOptional(IngestedThenSaved(s, "p1").dir, s, optional)
                    ELSE NoDir]
    /\ objs = [v \in ObjIds |-> NoObj]
    /\ last = NoCall

NextOptional ==
    \/ \E v \in {"A", "C"} : Construct(v, "p1", NoSource, ArgNone, ArgNone, READ_APPEND)
    \/ \E h5ad \in OptionalSources : Construct("B", "p2", h5ad, ArgNone, ArgNone, READ_APPEND)
    \/ \E v \in ObjIds, p \in Paths : Load(v, p)

SpecOptional == InitOptional /\ [][NextOptional]_vars

\* the directory loaded by the last call held metadata.json and the three
\* arrays, and neither dtypes.json nor the features artifact
LoadedBareStore ==
    /\ last.op \in {"construct", "load"}
    /\ last.h5ad = NoSource
    /\ {METADATA, DATA, COLPTR, ROWPTR} \subseteq last.pre_dir.files
    /\ DTYPE \notin last.pre_dir.files
    /\ FEATURES \notin last.pre_dir.files

\* C25: loading a store directory that holds metadata.json and the three
\* arrays but neither dtypes.json nor the features artifact succeeds, with
\* the default data dtype float32 and an empty feature schema.
C25_LoadWithoutOptionalFiles ==
    LoadedBareStore =>
        /\ last.status = "ok"
        /\ objs[last.v].dtype_data = DefaultDataDtype
        /\ objs[last.v].feature_index = EmptyFeatureIndex


----------------------------------------------------------------------------
\* C26: after every successful save, the save that ends a concat included,
\* the num_rows written to metadata.json equals number_of_rows() of the
\* store.
C26_MetadataNumRowsIsRowCount ==
    (last.op \in {"save", "concat"} /\ last.status = "ok") =>
        /\ FileExists(disk[last.path], METADATA)
        /\ disk[last.path].metadata.has_num_rows
        /\ number_of_rows(objs[last.v]).status = "ok"
        /\ disk[last.path].metadata.num_rows = number_of_rows(objs[last.v]).value


----------------------------------------------------------------------------
\* C27: a construction from an external source, or a fresh construction,
\* that fails on a data_path that did not exist leaves the data_path as it
\* was before the call: nothing is created.
C27_FailedConstructionCreatesNothing ==
    (/\ last.op = "construct"
     /\ last.status # "ok"
     /\ ~last.pre_dir.exists
     /\ (last.h5ad # NoSource \/ ShapeGiven(last.num_rows, last.num_elements)))
        => disk[last.path] = last.pre_dir


----------------------------------------------------------------------------
\* A ninth program, for a concat that raises inside its copy loop: the list
\* of inputs holds an ingested store and a store created in fresh mode, whose
\* schema is empty while its row pointers are not.

FailSources == {MkSource(<< <<0, 2>> >>, "float32"), MkSource(<< <<1>> >>, "float32")}

NextFail ==
    \/ \E b \in Binds, h5ad \in FailSources :
          Construct(b[1], b[2], h5ad, ArgNone, ArgNone, READ_APPEND)
    \/ \E b \in Binds :
          Construct(b[1], b[2], NoSource, ArgNone, ArgNone, READ_APPEND)
    \/ \E b \in Binds, ne \in FreshShapes, nr \in FreshShapes :
          Construct(b[1], b[2], NoSource, ne, nr, READ_APPEND)
    \/ \E v \in ObjIds, w \in ObjIds : \E x \in ObjIds \ {w} : Concat(v, <<w, x>>)

SpecFail == Init /\ [][NextFail]_vars

\* C28: when concat raises, self's in-memory feature schema is the one it
\* had before the call, and so is its number of schema rows.
C28_FailedConcatKeepsSchema ==
    (last.op = "concat" /\ last.status # "ok") =>
        /\ objs[last.v].feature_index = last.pre[last.v].feature_index
        /\ FI_number_of_rows(objs[last.v].feature_index)
              = FI_number_of_rows(last.pre[last.v].feature_index)


----------------------------------------------------------------------------
\* the last call ingested a sparse source of at least one row and no stored
\* entry into a data_path that did not exist
IngestedEmptyRows ==
    /\ last.op = "construct"
    /\ last.h5ad.kind = "sparse"
    /\ last.h5ad.n_obs >= 1
    /\ Len(last.h5ad.indices) = 0
    /\ ~last.pre_dir.exists

\* C29: ingesting a valid sparse source with at least one row and no stored
\* entry succeeds and yields a store with that many rows, each of them empty.
C29_EmptyRowsIngest ==
    IngestedEmptyRows =>
        /\ last.status = "ok"
        /\ number_of_rows(objs[last.v]) = Value(last.h5ad.n_obs)
        /\ \A i \in 0..(last.h5ad.n_obs - 1) : get_row(objs[last.v], i).values = <<>>


----------------------------------------------------------------------------
\* A tenth program, for a store created in fresh mode and filled by its
\* caller: the caller writes values, column ids and row pointers into the
\* three arrays of the object, which are mapped on the files of the store.
\* No schema block is appended.

FillSources == {MkSource(<< <<1>> >>, "float32"), MkSource(<< <<0>> >>, "float32")}

\* ds.data[:] = src.data; ds.col_index[:] = src.indices;
\* ds.row_index[:] = src.indptr, on a fresh store of the shape of src
Fill(v, src) ==
    LET o == StoreSource(objs[v], src)
        p == objs[v].data_path
    IN  /\ objs[v].alive
        /\ objs[v].mode = CREATE_APPEND
        /\ objs[v].feature_index = EmptyFeatureIndex
        /\ Len(objs[v].data) = Len(src.indices)
        /\ Len(objs[v].row_index) = src.n_obs + 1
        /\ objs' = [objs EXCEPT ![v] = o]
        /\ disk' = [disk EXCEPT ![p].data = Encode(o.data, o.dtype_data),
                                ![p].col  = o.col_index,
                                ![p].row  = o.row_index]
        /\ last' = [NoCall EXCEPT !.op = "fill", !.v = v, !.path = p, !.h5ad = src,
                                  !.pre_dir = disk[p]]

NextFill ==
    \/ \E b \in PairBinds, h5ad \in FillSources :
          Construct(b[1], b[2], h5ad, ArgNone, ArgNone, READ_APPEND)
    \/ \E b \in PairBinds, ne \in FreshShapes, nr \in FreshShapes :
          Construct(b[1], b[2], NoSource, ne, nr, READ_APPEND)
    \/ \E b \in PairBinds, src \in FillSources : Fill(b[1], src)
    \/ \E b \in PairBinds, c \in PairBinds : Concat(b[1], <<c[1]>>)
    \/ \E b \in PairBinds : Save(b[1])

SpecFill == Init /\ [][NextFill]_vars

\* the receiver of the last concat was a fresh store without schema block
\* whose arrays the caller had filled with at least one row (its last row
\* pointer is the number of its values), and the input held at least one row
ConcatOntoFilledFresh ==
    /\ ConcatDone
    /\ ConcatSelfBefore.feature_index = EmptyFeatureIndex
    /\ RowsHeld(ConcatSelfBefore) >= 1
    /\ At(ConcatSelfBefore.row_index, RowsHeld(ConcatSelfBefore)) = Len(ConcatSelfBefore.data)
    /\ number_of_rows(ConcatOtherBefore).status = "ok"
    /\ number_of_rows(ConcatOtherBefore).value >= 1

\* C30: for a store created in fresh mode with R rows and filled directly by
\* the caller, concat(B) keeps those R rows as rows 0..R-1 of the result,
\* followed by B's rows.
C30_FilledFreshRowsKept ==
    ConcatOntoFilledFresh =>
        LET R == RowsHeld(ConcatSelfBefore)
            n == number_of_rows(ConcatOtherBefore).value
            A == objs[last.v]
        IN  /\ RowsHeld(A) = R + n
            /\ \A i \in 0..(R - 1) : get_row(A, i) = get_row(ConcatSelfBefore, i)
            /\ \A j \in 0..(n - 1) : get_row(A, R + j) = get_row(ConcatOtherBefore, j)

====
